---- MODULE Spec2Model ----
(***************************************************************************)
(* The payroll pipeline (FullDataManagement.py) and the interactive search *)
(* tool (Interactive_Investigation_Script.py) as one state machine. The    *)
(* two programs are separate processes that meet in the file               *)
(* merged_data.csv: Joining writes it, load_data reads it.                 *)
(*                                                                         *)
(* Text is a sequence of one-character strings. The empty sequence is      *)
(* pandas' missing text: read_csv turns an empty cell into it and to_csv   *)
(* writes it as an empty cell. Numbers are finite; a nullable number is a  *)
(* record [isna, v].                                                       *)
(***************************************************************************)
EXTENDS Integers, Sequences, FiniteSets, TLC

\* ------------------------------------------------------------------ bounds

\* Most rows a generated data.csv holds.
MaxRows == 2

\* ------------------------------------------------------- values and cells

NA == <<>>

NaN == [isna |-> TRUE, v |-> 0]

Num(n) == [isna |-> FALSE, v |-> n]

\* A numeric cell of a delimited file: a number, a text that is no number
\* ("Not Provided"), or nothing between the delimiters.
NumCell(n) == [t |-> "num", v |-> n]

TextCell == [t |-> "text", v |-> 0]

EmptyCell == [t |-> "empty", v |-> 0]

\* pd.to_numeric(col, errors='coerce'): what does not parse becomes NaN.
ToNumeric(cell) == IF cell.t = "num" THEN Num(cell.v) ELSE NaN

\* Texts read_csv takes for a missing value (of its default list, the two
\* the generated files use).
NaTexts == {<<>>, <<"N", "A">>}

\* read_csv on a text cell.
ReadText(cell) == IF cell \in NaTexts THEN NA ELSE cell

\* to_csv on a text value: a missing value is written as an empty cell.
WriteText(x) == x

\* to_csv on a nullable number.
WriteNum(x) == IF x.isna THEN EmptyCell ELSE NumCell(x.v)

Digit == {"0", "1", "2", "3", "4", "5", "6", "7", "8", "9"}

\* Whether read_csv's type inference parses the text as a number.
IsNumericText(s) == s # <<>> /\ \A i \in 1..Len(s) : s[i] \in Digit

\* ------------------------------------------------ FullDataManagement.py

AllColumns == {"EmployeeName", "JobTitle", "BasePay", "OvertimePay", "OtherPay",
               "Benefits", "TotalPay", "TotalPayBenefits", "Year", "Agency"}

\* Columns New_Columns indexes without an "if col in df.columns" guard.
EnrichColumns == {"BasePay", "OvertimePay", "OtherPay", "Benefits", "TotalPay",
                  "TotalPayBenefits"}

\* Columns Summary_Statistics indexes.
SummaryColumns == {"BasePay", "OvertimePay", "OtherPay", "Benefits", "TotalPay",
                   "TotalPayBenefits", "JobTitle", "Agency", "Year"}

\* fillna(0) left out: a missing value stays missing.
FillNaSkipped(x) == x

\* series.fillna(0)
FillNa0(x) == IF x.isna THEN Num(0) ELSE x

\* Series addition: NaN if either operand is NaN.
Add(x, y) == IF x.isna \/ y.isna THEN NaN ELSE Num(x.v + y.v)

\* df['BasePay'].fillna(0) + df['OvertimePay'].fillna(0) + df['OtherPay'].fillna(0)
TotalCompensation(base, ot, other) ==
    Add(Add(FillNa0(base), FillNa0(ot)), FillNa0(other))

\* A quotient: missing, an infinity, or the fraction n/d.
QNaN == [k |-> "nan", n |-> 0, d |-> 1]

\* Series division a / b under IEEE rules: x/0 is an infinity, 0/0 and
\* anything with NaN is NaN; no exception is raised.
Div(a, b) ==
    IF a.isna \/ b.isna THEN QNaN
    ELSE IF b.v = 0
         THEN (IF a.v = 0 THEN QNaN
               ELSE [k |-> IF a.v > 0 THEN "inf" ELSE "-inf", n |-> 0, d |-> 1])
         ELSE [k |-> "num", n |-> a.v, d |-> b.v]

\* q * c for c > 0
Times(q, c) == IF q.k = "num" THEN [q EXCEPT !.n = q.n * c] ELSE q

\* q > c as pandas compares: False for NaN.
QGreater(q, c) ==
    \/ q.k = "inf"
    \/ q.k = "num" /\ q.d > 0 /\ q.n > c * q.d
    \/ q.k = "num" /\ q.d < 0 /\ q.n < c * q.d

\* The guard with >= for >: a base pay of zero passes.
OvertimeGuardAllowsZero(base) == (~base.isna /\ base.v >= 0) /\ ~base.isna

\* (df['BasePay'] > 0) & (df['BasePay'].notna())
OvertimeGuard(base) == (~base.isna /\ base.v > 0) /\ ~base.isna

\* np.where(guard, (OvertimePay / BasePay) * 100, np.nan): both branches are
\* evaluated, the guard selects.
OvertimePercent(base, ot) ==
    LET ratio == Times(Div(ot, base), 100)
    IN  IF OvertimeGuard(base) THEN ratio ELSE QNaN

HighOvertimeThreshold == 20

\* df['OvertimePercent'] > 20
HighOvertimeFlag(pct) == QGreater(pct, HighOvertimeThreshold)

\* bins=[0, 50000, 100000, 150000, float('inf')]: the finite edges.
Bins == <<0, 50000, 100000, 150000>>

Labels == <<<<"L", "o", "w">>, <<"M", "e", "d", "i", "u", "m">>,
            <<"H", "i", "g", "h">>, <<"V", "e", "r", "y", " ", "H", "i", "g", "h">>>>

\* pd.cut with right=False: bins closed on the left, open on the right.
InBinLeftClosed(x, i) ==
    /\ x >= Bins[i]
    /\ (i < Len(Bins) => x < Bins[i + 1])

\* Whether x lies in bin i of pd.cut (right=True, include_lowest=False):
\* above the left edge, at most the right edge; the last right edge is inf.
InBin(x, i) ==
    /\ x > Bins[i]
    /\ (i < Len(Bins) => x <= Bins[i + 1])

\* pd.cut(df['TotalPayBenefits'], bins=..., labels=...)
SalaryCategory(tpb) ==
    IF tpb.isna \/ ~(\E i \in 1..Len(Bins) : InBin(tpb.v, i)) THEN NA
    ELSE Labels[CHOOSE i \in 1..Len(Bins) : InBin(tpb.v, i)]

\* One row of the frame New_Columns returns.
EnrichRow(r) ==
    LET base == ToNumeric(r.BasePay)
        ot == ToNumeric(r.OvertimePay)
        other == ToNumeric(r.OtherPay)
        tpb == ToNumeric(r.TotalPayBenefits)
        pct == OvertimePercent(base, ot)
    IN  [JobTitle |-> ReadText(r.JobTitle), Agency |-> ReadText(r.Agency),
         BasePay |-> base, OvertimePay |-> ot, OtherPay |-> other,
         TotalPayBenefits |-> tpb,
         TotalCompensation |-> TotalCompensation(base, ot, other),
         OvertimePercent |-> pct,
         SalaryCategory |-> SalaryCategory(tpb),
         HighOvertimeFlag |-> HighOvertimeFlag(pct)]

RECURSIVE UniqueKeepsDuplicates(_, _)
\* dropna() without unique(): a repeated agency is listed again.
UniqueKeepsDuplicates(s, seen) ==
    IF s = <<>> THEN <<>>
    ELSE IF Head(s) = NA THEN UniqueKeepsDuplicates(Tail(s), seen)
         ELSE <<Head(s)>> \o UniqueKeepsDuplicates(Tail(s), seen)

RECURSIVE Unique(_, _)
\* df_employees['Agency'].dropna().unique(): the distinct non-missing values
\* of s in first-seen order; seen holds those already taken.
Unique(s, seen) ==
    IF s = <<>> THEN <<>>
    ELSE IF Head(s) = NA \/ Head(s) \in seen THEN Unique(Tail(s), seen)
         ELSE <<Head(s)>> \o Unique(Tail(s), seen \cup {Head(s)})

DigitChars == <<"0", "1", "2", "3", "4", "5", "6", "7", "8", "9">>

RECURSIVE Str(_)
\* str(i) for i >= 0
Str(i) == IF i < 10 THEN <<DigitChars[i + 1]>>
          ELSE Str(i \div 10) \o <<DigitChars[(i % 10) + 1]>>

RECURSIVE Zfill(_, _)
\* s.zfill(w)
Zfill(s, w) == IF Len(s) >= w THEN s ELSE Zfill(<<"0">> \o s, w)

CodeWidth == 4

\* f'AG-{str(i).zfill(4)}'
AgencyCode(i) == <<"A", "G", "-">> \o Zfill(Str(i), CodeWidth)

General == <<"G", "e", "n", "e", "r", "a", "l">>

\* The frame agency_mapping: one row per distinct agency, codes from 0 in
\* first-seen order.
AgencyMapping(agencies) ==
    LET u == Unique(agencies, {})
    IN  [i \in 1..Len(u) |->
            [Agency |-> u[i], AgencyCode |-> AgencyCode(i - 1), Department |-> General]]

\* agency_mapping.to_csv(mapping_file, index=False)
WriteMapping(m) ==
    [i \in 1..Len(m) |->
        [Agency |-> WriteText(m[i].Agency), AgencyCode |-> WriteText(m[i].AgencyCode),
         Department |-> WriteText(m[i].Department)]]

\* pd.read_csv(mapping_file), no dtype given: a column all of whose cells
\* parse as numbers is read as numbers, any other column as text.
ReadMapping(file) ==
    [keyDtype |-> IF file # <<>> /\ \A i \in 1..Len(file) : IsNumericText(file[i].Agency)
                  THEN "int64" ELSE "object",
     rows |-> [i \in 1..Len(file) |->
                 [Agency |-> ReadText(file[i].Agency),
                  AgencyCode |-> ReadText(file[i].AgencyCode),
                  Department |-> ReadText(file[i].Department)]]]

\* pd.read_csv(data_file, dtype=dtypes_main) and the to_numeric loop of Joining.
ReadEmployees(rows) ==
    [i \in 1..Len(rows) |->
        [JobTitle |-> ReadText(rows[i].JobTitle), Agency |-> ReadText(rows[i].Agency),
         BasePay |-> ToNumeric(rows[i].BasePay),
         OvertimePay |-> ToNumeric(rows[i].OvertimePay),
         OtherPay |-> ToNumeric(rows[i].OtherPay),
         TotalPayBenefits |-> ToNumeric(rows[i].TotalPayBenefits)]]

\* Whether the text key of an employee row equals the key of a mapping row.
\* A text never equals a number, so nothing matches a key column that was
\* read back as int64.
KeyMatches(emp, right, j) ==
    right.keyDtype = "object" /\ right.rows[j].Agency = emp.Agency

\* The joined rows one employee row gives: one per matching mapping row, or
\* one with missing code and department when none matches.
JoinRow(emp, right, src) ==
    LET hits == {j \in 1..Len(right.rows) : KeyMatches(emp, right, j)}
        Out(code, dept) ==
            [src |-> src, JobTitle |-> emp.JobTitle, Agency |-> emp.Agency,
             BasePay |-> emp.BasePay, OvertimePay |-> emp.OvertimePay,
             OtherPay |-> emp.OtherPay, TotalPayBenefits |-> emp.TotalPayBenefits,
             AgencyCode |-> code, Department |-> dept]
        RECURSIVE Emit(_)
        Emit(j) == IF j > Len(right.rows) THEN <<>>
                   ELSE (IF j \in hits
                         THEN <<Out(right.rows[j].AgencyCode, right.rows[j].Department)>>
                         ELSE <<>>) \o Emit(j + 1)
    IN  IF hits = {} THEN <<Out(NA, NA)>> ELSE Emit(1)

RECURSIVE MergeFrom(_, _, _)
\* pd.merge(df_employees, df_agency_codes, on='Agency', how='left'), from
\* left row i on: left order is kept. src is the index of the left row a
\* joined row comes from.
MergeFrom(left, right, i) ==
    IF i > Len(left) THEN <<>>
    ELSE JoinRow(left[i], right, i) \o MergeFrom(left, right, i + 1)

Merge(left, right) == MergeFrom(left, right, 1)

\* Whether pd.merge is handed a text key on the left and a numeric key on
\* the right. The pandas version decides what follows: a ValueError ("You
\* are trying to merge on string and int64 columns") or a merge in which no
\* key matches.
MixedKeys(left, right) == left # <<>> /\ right.keyDtype = "int64"

\* merged_df['AgencyCode'].isna().sum()
UnmatchedCount(m) == Cardinality({i \in 1..Len(m) : m[i].AgencyCode = NA})

\* merged_df.to_csv(merged_file, index=False)
WriteMerged(m) ==
    [i \in 1..Len(m) |->
        [JobTitle |-> WriteText(m[i].JobTitle), Agency |-> WriteText(m[i].Agency),
         BasePay |-> WriteNum(m[i].BasePay), OvertimePay |-> WriteNum(m[i].OvertimePay),
         OtherPay |-> WriteNum(m[i].OtherPay),
         TotalPayBenefits |-> WriteNum(m[i].TotalPayBenefits),
         AgencyCode |-> WriteText(m[i].AgencyCode),
         Department |-> WriteText(m[i].Department)]]

\* ------------------------------------------------------------------ state

VARIABLES
    dataFile,    \* Data/data.csv: [state, columns, rows]
    mappingFile, \* Data/agency_code.csv: [state, rows]
    mergedFile,  \* Data/merged_data.csv: [state, rows]; the tool, which opens
                 \* 'merged_data.csv' as named, is taken to run in Data/
    written,     \* the output files the pipeline has written
    pc,          \* the pipeline's place in its __main__ block
    df,          \* the frame New_Columns returned
    merged_df,   \* the frame Joining built
    batchOut,    \* what the pipeline printed, as message tags
    batchExit,   \* [done, code]: the pipeline's exit status once it ended
    tpc,         \* the search tool's place: before load_data, a state of its loop, or ended
    tdf,         \* the frame load_data returned
    keyword,     \* main's keyword: the last line read at the keyword prompt, stripped
    filtered_df, \* main's filtered_df
    filename,    \* main's filename
    toolOut,     \* the last message the tool printed, as a tag
    toolExit,    \* [done, code]: the tool's exit status once it ended
    searchFile   \* the last search output written: [name, rows], or Absent

batchVars == <<dataFile, mappingFile, mergedFile, written, pc, df, merged_df,
               batchOut, batchExit>>

toolVars == <<tpc, tdf, keyword, filtered_df, filename, toolOut, toolExit, searchFile>>

vars == <<batchVars, toolVars>>

\* ----------------------------------------------------------------- inputs

Clerk == <<"C", "l", "k">>

DefaultRow ==
    [JobTitle |-> Clerk, Agency |-> <<"S", "F">>, BasePay |-> NumCell(100),
     OvertimePay |-> NumCell(0), OtherPay |-> EmptyCell,
     TotalPayBenefits |-> NumCell(100)]

BaseCells == {EmptyCell, TextCell, NumCell(-100), NumCell(0), NumCell(100), NumCell(300)}

OvertimeCells == {EmptyCell, NumCell(0), NumCell(20), NumCell(21)}

OtherCells == {EmptyCell, NumCell(7)}

BenefitCells ==
    {EmptyCell, TextCell, NumCell(-1), NumCell(0), NumCell(1), NumCell(50000),
     NumCell(50001), NumCell(100000), NumCell(100001), NumCell(150000),
     NumCell(150001)}

\* Agency cells: empty, "NA", a blank, a name, a number.
AgencyCells == {<<>>, <<"N", "A">>, <<" ">>, <<"S", "F">>, <<"7">>}

\* Job title cells: empty, "Sr Mgr", "MGRS", "Clk", "C(T)".
TitleCells ==
    {<<>>, <<"S", "r", " ", "M", "g", "r">>, <<"M", "G", "R", "S">>, Clerk,
     <<"C", "(", "T", ")">>}

SeqsUpTo(S, n) == UNION {[1..k -> S] : k \in 0..n}

\* The tables data.csv may hold: one row with its pay cells varied, or up to
\* MaxRows rows with their agencies or their job titles varied.
PayTables ==
    {<<[DefaultRow EXCEPT !.BasePay = b, !.OvertimePay = o, !.OtherPay = x]>> :
        <<b, o, x>> \in BaseCells \X OvertimeCells \X OtherCells}

BenefitTables == {<<[DefaultRow EXCEPT !.TotalPayBenefits = t]>> : t \in BenefitCells}

AgencyTables ==
    {[i \in DOMAIN a |-> [DefaultRow EXCEPT !.Agency = a[i]]] :
        a \in SeqsUpTo(AgencyCells, MaxRows)}

TitleTables ==
    {[i \in DOMAIN t |-> [DefaultRow EXCEPT !.JobTitle = t[i]]] :
        t \in SeqsUpTo(TitleCells, MaxRows)}

Tables == PayTables \cup BenefitTables \cup AgencyTables \cup TitleTables

Absent == [state |-> "missing", columns |-> {}, rows |-> <<>>]

\* A file of zero bytes.
ZeroBytes == [state |-> "empty", columns |-> {}, rows |-> <<>>]

Table(cols, rows) == [state |-> "table", columns |-> cols, rows |-> rows]

DataFiles ==
    {Absent, ZeroBytes, Table(AllColumns \ {"BasePay"}, <<DefaultRow>>),
     Table(AllColumns \ {"JobTitle"}, <<DefaultRow>>)}
    \cup {Table(AllColumns, t) : t \in Tables}

NotExited == [done |-> FALSE, code |-> 0]

Exited(code) == [done |-> TRUE, code |-> code]

BatchInit ==
    /\ dataFile \in DataFiles
    /\ mappingFile = Absent
    /\ mergedFile \in {Absent, ZeroBytes}
    /\ written = {}
    /\ pc = "start"
    /\ df = <<>>
    /\ merged_df = <<>>
    /\ batchOut = <<>>
    /\ batchExit = NotExited

\* ----------------------------------------------- the pipeline's __main__

\* except FileNotFoundError / except Exception of the __main__ block: the
\* error is printed and the script runs off its end, which is exit status 0.
Handle(exc) ==
    /\ pc' = "failed"
    /\ batchOut' = Append(batchOut, IF exc = "FileNotFoundError" THEN "not_found"
                                    ELSE "unexpected")
    /\ batchExit' = Exited(0)

\* What New_Columns raises on the data file, "none" if it runs through;
\* locked says that the output file cannot be written.
NewColumnsError(file, locked) ==
    IF file.state = "missing" THEN "FileNotFoundError"
    ELSE IF file.state = "empty" THEN "EmptyDataError"
    ELSE IF ~(EnrichColumns \subseteq file.columns) THEN "KeyError"
    ELSE IF locked THEN "PermissionError"
    ELSE "none"

\* df = New_Columns()
New_Columns ==
    /\ pc = "start"
    /\ \E locked \in BOOLEAN :
        LET exc == NewColumnsError(dataFile, locked)
        IN  IF exc = "none"
            THEN /\ df' = [i \in 1..Len(dataFile.rows) |-> EnrichRow(dataFile.rows[i])]
                 /\ written' = written \cup {"data_with_new_columns.csv"}
                 /\ pc' = "step2"
                 /\ batchOut' = Append(batchOut, "new_columns_saved")
                 /\ UNCHANGED batchExit
            ELSE /\ Handle(exc)
                 /\ UNCHANGED <<df, written>>
    /\ UNCHANGED <<dataFile, mappingFile, mergedFile, merged_df, toolVars>>

\* Summary_Statistics(df): prints only; a column it groups by may be absent.
Summary_Statistics ==
    /\ pc = "step2"
    /\ IF SummaryColumns \subseteq dataFile.columns
       THEN /\ pc' = "step3"
            /\ batchOut' = Append(batchOut, "summary")
            /\ UNCHANGED batchExit
       ELSE Handle("KeyError")
    /\ UNCHANGED <<dataFile, mappingFile, mergedFile, written, df, merged_df, toolVars>>

\* merged_df = Joining(), and the lines of __main__ after it.
Joining ==
    /\ pc = "step3"
    /\ \E fault \in {"none", "mapping_locked", "merge_raises", "merged_locked"} :
        LET df_employees == ReadEmployees(dataFile.rows)
            agency_mapping ==
                AgencyMapping([i \in 1..Len(df_employees) |-> df_employees[i].Agency])
            file == WriteMapping(agency_mapping)
            df_agency_codes == ReadMapping(file)
            m == Merge(df_employees, df_agency_codes)
            warn == IF UnmatchedCount(m) > 0 THEN <<"unmatched_warning">> ELSE <<>>
        IN  /\ fault = "merge_raises" => MixedKeys(df_employees, df_agency_codes)
            /\ IF fault = "mapping_locked"
               THEN /\ Handle("PermissionError")
                    /\ UNCHANGED <<mappingFile, mergedFile, written, merged_df>>
               ELSE IF fault = "merge_raises"
               THEN /\ Handle("ValueError")
                    /\ mappingFile' = [state |-> "table", rows |-> file]
                    /\ written' = written \cup {"agency_code.csv"}
                    /\ UNCHANGED <<mergedFile, merged_df>>
               ELSE IF fault = "merged_locked"
               THEN /\ pc' = "failed"
                    /\ batchOut' = batchOut \o warn \o <<"unexpected">>
                    /\ batchExit' = Exited(0)
                    /\ mappingFile' = [state |-> "table", rows |-> file]
                    /\ written' = written \cup {"agency_code.csv"}
                    /\ UNCHANGED <<mergedFile, merged_df>>
               ELSE /\ pc' = "done"
                    /\ batchOut' = batchOut \o warn \o <<"completed">>
                    /\ batchExit' = Exited(0)
                    /\ mappingFile' = [state |-> "table", rows |-> file]
                    /\ mergedFile' = [state |-> "table", rows |-> WriteMerged(m)]
                    /\ written' = written \cup {"agency_code.csv", "merged_data.csv"}
                    /\ merged_df' = m
    /\ UNCHANGED <<dataFile, df, toolVars>>

\* ------------------------------------- Interactive_Investigation_Script.py

LowerOf ==
    [c \in {"Q", "U", "I", "T", "E", "X", "M", "G", "R", "S", "C", "Y"} |->
        CASE c = "Q" -> "q" [] c = "U" -> "u" [] c = "I" -> "i" [] c = "T" -> "t"
          [] c = "E" -> "e" [] c = "X" -> "x" [] c = "M" -> "m" [] c = "G" -> "g"
          [] c = "R" -> "r" [] c = "S" -> "s" [] c = "C" -> "c" [] c = "Y" -> "y"]

LowerChar(c) == IF c \in DOMAIN LowerOf THEN LowerOf[c] ELSE c

\* s.lower()
Lower(s) == [i \in 1..Len(s) |-> LowerChar(s[i])]

RECURSIVE LStrip(_)
LStrip(s) == IF s # <<>> /\ Head(s) = " " THEN LStrip(Tail(s)) ELSE s

RECURSIVE RStrip(_)
RStrip(s) == IF s # <<>> /\ s[Len(s)] = " " THEN RStrip(SubSeq(s, 1, Len(s) - 1)) ELSE s

\* s.strip()
Strip(s) == RStrip(LStrip(s))

\* s.endswith(t)
EndsWith(s, t) == Len(s) >= Len(t) /\ SubSeq(s, Len(s) - Len(t) + 1, Len(s)) = t

\* pd.read_csv(filepath, dtype=dtypes) on the rows of merged_data.csv
ReadMerged(rows) ==
    [i \in 1..Len(rows) |->
        [JobTitle |-> ReadText(rows[i].JobTitle), Agency |-> ReadText(rows[i].Agency),
         BasePay |-> ToNumeric(rows[i].BasePay),
         OvertimePay |-> ToNumeric(rows[i].OvertimePay),
         OtherPay |-> ToNumeric(rows[i].OtherPay),
         TotalPayBenefits |-> ToNumeric(rows[i].TotalPayBenefits),
         AgencyCode |-> ReadText(rows[i].AgencyCode),
         Department |-> ReadText(rows[i].Department)]]

RECURSIVE ParenDepth(_, _)
\* Whether the parentheses of pattern p close in order, from depth d.
ParenDepth(p, d) ==
    IF p = <<>> THEN d = 0
    ELSE IF Head(p) = "(" THEN ParenDepth(Tail(p), d + 1)
    ELSE IF Head(p) = ")" THEN d > 0 /\ ParenDepth(Tail(p), d - 1)
    ELSE ParenDepth(Tail(p), d)

\* Whether re.compile(p) succeeds, for patterns of letters, blanks, "." and
\* parentheses: an unbalanced parenthesis raises re.error.
RegexCompiles(p) == ParenDepth(p, 0)

RECURSIVE Atoms(_)
\* What the pattern has to match character by character: a group of plain
\* characters matches as its content does.
Atoms(p) ==
    IF p = <<>> THEN <<>>
    ELSE IF Head(p) \in {"(", ")"} THEN Atoms(Tail(p))
    ELSE <<Head(p)>> \o Atoms(Tail(p))

\* Whether the atoms a match s at position i under re.IGNORECASE: "." matches
\* any character, every other atom itself in either letter case.
MatchesAt(a, s, i) ==
    /\ i + Len(a) - 1 <= Len(s)
    /\ \A j \in 1..Len(a) : a[j] = "." \/ LowerChar(a[j]) = LowerChar(s[i + j - 1])

\* re.search(p, s, re.IGNORECASE) is not None, for a p that compiles
RegexSearch(p, s) == \E i \in 1..(Len(s) + 1) : MatchesAt(Atoms(p), s, i)

\* series.str.contains(keyword, case=False, na=False): regex=True is the
\* default, so the keyword is a regular expression.
StrContains(title, kw) == title # NA /\ RegexSearch(kw, title)

RECURSIVE Filter(_, _)
\* df_clean[mask]: the rows with a job title that the mask selects, in order.
Filter(rows, kw) ==
    IF rows = <<>> THEN <<>>
    ELSE (IF Head(rows).JobTitle # NA /\ StrContains(Head(rows).JobTitle, kw)
          THEN <<Head(rows)>> ELSE <<>>) \o Filter(Tail(rows), kw)

\* search_by_job_title(df, keyword): an exception inside gives an empty frame.
search_by_job_title(frame, kw) ==
    IF RegexCompiles(kw) THEN Filter(frame, kw) ELSE <<>>

\* display_results without its "if num_matches == 0: return False".
display_resultsAlwaysTrue(frame) == Len(frame) >= 0

\* display_results(filtered_df, keyword): its return value
display_results(frame) == Len(frame) # 0

ExitWords == {<<"q", "u", "i", "t">>, <<"e", "x", "i", "t">>, <<"q">>}

YesWords == {<<"y">>, <<"y", "e", "s">>}

DotCsv == <<".", "c", "s", "v">>

DefaultName == <<"c", "u", "s", "t", "o", "m", "_", "s", "e", "a", "r", "c", "h">> \o DotCsv

\* Lines typed at the keyword prompt.
KeywordLines ==
    {<<>>, <<" ">>, <<"q">>, <<" ", "Q", "u", "I", "t", " ">>, <<"E", "X", "I", "T">>,
     <<"q", "u">>, <<"m", "g", "r">>, <<" ", "M", "g", "r">>, <<".">>, <<"(">>, <<"z">>}

\* Lines typed at the save prompt.
ChoiceLines == {<<>>, <<"n">>, <<"y">>, <<" ", "Y", "E", "S">>}

\* Lines typed at the filename prompt.
FilenameLines == {<<>>, <<"o">>, <<"o">> \o DotCsv}

Unset == <<>>

ToolInit ==
    /\ tpc = "NotStarted"
    /\ tdf = <<>>
    /\ keyword = Unset
    /\ filtered_df = <<>>
    /\ filename = Unset
    /\ toolOut = "banner"
    /\ toolExit = NotExited
    /\ searchFile = Absent

\* What load_data raises on the file, "none" if it loads; badInt says that
\* an Id or Year cell cannot be read as the integer dtype asked for.
LoadError(file, badInt) ==
    IF file.state = "missing" THEN "FileNotFoundError"
    ELSE IF file.state = "empty" THEN "EmptyDataError"
    ELSE IF badInt THEN "ValueError"
    ELSE "none"

\* df = load_data('merged_data.csv'): every except branch ends in sys.exit(1).
load_data ==
    /\ tpc = "NotStarted"
    /\ \E badInt \in BOOLEAN :
        LET exc == LoadError(mergedFile, badInt)
        IN  IF exc = "none"
            THEN /\ tdf' = ReadMerged(mergedFile.rows)
                 /\ toolOut' = "loaded"
                 /\ tpc' = "AwaitingInput"
                 /\ UNCHANGED toolExit
            ELSE /\ toolOut' = (IF exc = "FileNotFoundError" THEN "file_not_found"
                                ELSE IF exc = "EmptyDataError" THEN "file_empty"
                                ELSE "load_error")
                 /\ toolExit' = Exited(1)
                 /\ tpc' = "Terminated"
                 /\ UNCHANGED tdf
    /\ UNCHANGED <<keyword, filtered_df, filename, searchFile, batchVars>>

\* The exit test without lower().
IsExitKeywordCaseSensitive(kw) == kw \in ExitWords

\* keyword.lower() in ['quit', 'exit', 'q']
IsExitKeyword(kw) == Lower(kw) \in ExitWords

\* keyword = input(...).strip() and the two tests that follow it.
ReadKeyword ==
    /\ tpc = "AwaitingInput"
    /\ \E line \in KeywordLines :
        /\ keyword' = Strip(line)
        /\ IF IsExitKeyword(keyword')
           THEN /\ toolOut' = "goodbye"
                /\ tpc' = "Exited"
                /\ toolExit' = Exited(0)
           ELSE IF keyword' = <<>>
           THEN /\ toolOut' = "invalid_keyword"
                /\ UNCHANGED <<tpc, toolExit>>
           ELSE /\ toolOut' = "searching"
                /\ tpc' = "Searching"
                /\ UNCHANGED toolExit
    /\ UNCHANGED <<tdf, filtered_df, filename, searchFile, batchVars>>

\* filtered_df = search_by_job_title(df, keyword)
Search ==
    /\ tpc = "Searching"
    /\ filtered_df' = search_by_job_title(tdf, keyword)
    /\ toolOut' = (IF RegexCompiles(keyword) THEN toolOut ELSE "search_error")
    /\ tpc' = "DisplayingResults"
    /\ UNCHANGED <<tdf, keyword, filename, toolExit, searchFile, batchVars>>

\* has_results = display_results(filtered_df, keyword) and "if has_results:"
Display ==
    /\ tpc = "DisplayingResults"
    /\ IF display_results(filtered_df)
       THEN /\ toolOut' = "results"
            /\ tpc' = "SavePrompt"
       ELSE /\ toolOut' = "no_matches"
            /\ tpc' = "AwaitingInput"
    /\ UNCHANGED <<tdf, keyword, filtered_df, filename, toolExit, searchFile, batchVars>>

\* save_choice = input(...).strip().lower() and "if save_choice in ['y', 'yes']:"
ReadSaveChoice ==
    /\ tpc = "SavePrompt"
    /\ \E line \in ChoiceLines :
        tpc' = (IF Lower(Strip(line)) \in YesWords THEN "FilenamePrompt"
                ELSE "AwaitingInput")
    /\ UNCHANGED <<tdf, keyword, filtered_df, filename, toolOut, toolExit, searchFile,
                   batchVars>>

\* filename = input(...).strip() with the default and the extension
ReadFilename ==
    /\ tpc = "FilenamePrompt"
    /\ \E line \in FilenameLines :
        LET name == Strip(line)
        IN  filename' = (IF name = <<>> THEN DefaultName
                         ELSE IF ~EndsWith(name, DotCsv) THEN name \o DotCsv
                         ELSE name)
    /\ tpc' = "Saving"
    /\ UNCHANGED <<tdf, keyword, filtered_df, toolOut, toolExit, searchFile, batchVars>>

\* The message save_results prints; fault is what to_csv raises, if anything.
SaveMessage(frame, fault) ==
    IF Len(frame) = 0 THEN "no_data"
    ELSE IF fault = "PermissionError" THEN "permission_denied"
    ELSE IF fault = "OSError" THEN "save_error"
    ELSE "saved"

\* A save that is tried again when it failed.
AfterSaveRetries(msg) ==
    IF msg \in {"permission_denied", "save_error"} THEN "Saving" ELSE "AwaitingInput"

\* Where main goes on once save_results has returned: the iteration is
\* over, whatever save_results caught.
AfterSave(msg) == "AwaitingInput"

\* save_results(filtered_df, filename)
SaveResults ==
    /\ tpc = "Saving"
    /\ \E fault \in {"none", "PermissionError", "OSError"} :
        LET msg == SaveMessage(filtered_df, fault)
        IN  /\ toolOut' = msg
            /\ searchFile' = (IF msg = "saved"
                              THEN [state |-> "table", name |-> filename,
                                    rows |-> filtered_df]
                              ELSE searchFile)
            /\ tpc' = AfterSave(msg)
    /\ UNCHANGED <<tdf, keyword, filtered_df, filename, toolExit, batchVars>>

InLoop == {"AwaitingInput", "Searching", "DisplayingResults", "SavePrompt",
           "FilenamePrompt", "Saving"}

\* except KeyboardInterrupt: break
Interrupt ==
    /\ tpc \in InLoop
    /\ toolOut' = "interrupted"
    /\ tpc' = "Exited"
    /\ toolExit' = Exited(0)
    /\ UNCHANGED <<tdf, keyword, filtered_df, filename, searchFile, batchVars>>

\* Where the loop goes on after "except Exception": its next iteration.
AfterError == "AwaitingInput"

\* except Exception: an input() call raises (EOFError on a closed stdin);
\* the error is printed and the loop goes on.
InputError ==
    /\ tpc \in {"AwaitingInput", "SavePrompt", "FilenamePrompt"}
    /\ toolOut' = "unexpected"
    /\ tpc' = AfterError
    /\ UNCHANGED <<tdf, keyword, filtered_df, filename, toolExit, searchFile, batchVars>>

\* ----------------------------------------------------------- specifications

\* The pipeline, and the tool's start on the file the pipeline leaves.
Init == BatchInit /\ ToolInit

Next == New_Columns \/ Summary_Statistics \/ Joining \/ load_data

Spec == Init /\ [][Next]_vars

\* The merged_data.csv files the tool may find: none, an empty one, or what
\* Joining writes for a table of data.csv.
MergedFiles ==
    {Absent, ZeroBytes}
    \cup {[state |-> "table",
           rows |-> WriteMerged(Merge(ReadEmployees(t),
                        ReadMapping(WriteMapping(AgencyMapping(
                            [i \in 1..Len(t) |-> ReadText(t[i].Agency)])))))] :
            t \in TitleTables}

\* The tool alone, the pipeline having ended.
ToolSpecInit ==
    /\ dataFile = Absent
    /\ mappingFile = Absent
    /\ mergedFile \in MergedFiles
    /\ written = {}
    /\ pc = "done"
    /\ df = <<>>
    /\ merged_df = <<>>
    /\ batchOut = <<>>
    /\ batchExit = Exited(0)
    /\ ToolInit

ToolNext ==
    \/ load_data
    \/ ReadKeyword
    \/ Search
    \/ Display
    \/ ReadSaveChoice
    \/ ReadFilename
    \/ SaveResults
    \/ Interrupt
    \/ InputError

ToolSpec == ToolSpecInit /\ [][ToolNext]_vars

\* ------------------------------------------------------------------ claims

Low == Labels[1]

Medium == Labels[2]

High == Labels[3]

VeryHigh == Labels[4]

\* The frame Joining read from data.csv, as the claims speak of it.
InputRows == ReadEmployees(dataFile.rows)

\* C1: once Joining has built the joined frame from the mapping of the same
\* input, no joined row has a null AgencyCode, whatever the input's agencies.
JoinLeavesNoRowUnmatched ==
    pc = "done" => \A i \in 1..Len(merged_df) : merged_df[i].AgencyCode # NA

\* C2: the joined frame has the rows of the input, each once and in order:
\* as many rows as the input, row i made of input row i, and a row whose
\* agency is missing kept with null AgencyCode and Department.
JoinPreservesEveryRow ==
    pc = "done" =>
        /\ Len(merged_df) = Len(dataFile.rows)
        /\ \A i \in 1..Len(merged_df) :
            /\ merged_df[i].src = i
            /\ merged_df[i].Agency = InputRows[i].Agency
            /\ merged_df[i].JobTitle = InputRows[i].JobTitle
            /\ merged_df[i].BasePay = InputRows[i].BasePay
            /\ (merged_df[i].AgencyCode = NA <=> merged_df[i].Department = NA)
            /\ (InputRows[i].Agency = NA => merged_df[i].AgencyCode = NA)

\* C2's case: a join of two rows, one matched and one not.
JoinedMatchedAndUnmatched ==
    /\ pc = "done"
    /\ Len(merged_df) >= 2
    /\ \E i, j \in 1..Len(merged_df) :
        /\ merged_df[i].AgencyCode = NA
        /\ merged_df[j].AgencyCode = AgencyCode(0)

\* C3 as stated: the category is one of the four labels or null, a total of
\* exactly 50000 is "Medium", and a total that is 0, negative or missing has
\* no category.
CategoryPuts50000InMedium ==
    \A i \in 1..Len(df) :
        LET x == df[i].TotalPayBenefits
            c == df[i].SalaryCategory
        IN  /\ c \in {Low, Medium, High, VeryHigh, NA}
            /\ (~x.isna /\ x.v = 50000 => c = Medium)
            /\ (x.isna \/ x.v <= 0 => c = NA)

\* C3 amended: the bins are (0, 50000], (50000, 100000], (100000, 150000]
\* and (150000, inf); a total of exactly 50000 is "Low", and a total that is
\* 0, negative or missing has no category.
CategoryFollowsRightClosedBins ==
    \A i \in 1..Len(df) :
        LET x == df[i].TotalPayBenefits
            c == df[i].SalaryCategory
        IN  /\ c \in {Low, Medium, High, VeryHigh, NA}
            /\ (c = NA <=> (x.isna \/ x.v <= 0))
            /\ (c = Low <=> (~x.isna /\ 0 < x.v /\ x.v <= 50000))
            /\ (c = Medium <=> (~x.isna /\ 50000 < x.v /\ x.v <= 100000))
            /\ (c = High <=> (~x.isna /\ 100000 < x.v /\ x.v <= 150000))
            /\ (c = VeryHigh <=> (~x.isna /\ 150000 < x.v))

\* C3's case: a record with a total of exactly 50000 has been categorised.
Categorised50000 ==
    /\ pc = "step2"
    /\ \E i \in 1..Len(df) :
        df[i].TotalPayBenefits = Num(50000) /\ df[i].SalaryCategory = Low

OrZero(x) == IF x.isna THEN 0 ELSE x.v

LiteralContains(title, kw) ==
    \E i \in 1..(Len(title) + 1) :
        /\ i + Len(kw) - 1 <= Len(title)
        /\ \A j \in 1..Len(kw) : LowerChar(kw[j]) = LowerChar(title[i + j - 1])

\* C6: a search returns exactly the rows whose JobTitle is non-null and
\* contains the keyword as a literal case-insensitive substring.
SearchMatchesLiterally ==
    tpc = "DisplayingResults" =>
        /\ \A i \in 1..Len(filtered_df) :
            /\ filtered_df[i].JobTitle # NA
            /\ LiteralContains(filtered_df[i].JobTitle, keyword)
        /\ Len(filtered_df) =
               Cardinality({i \in 1..Len(tdf) :
                   tdf[i].JobTitle # NA /\ LiteralContains(tdf[i].JobTitle, keyword)})

\* C7: a step from AwaitingInput is an interrupt, which leads to Exited; a
\* failed read; or a line read, whose trimmed text decides: an exit word in
\* any letter case leads to Exited, an empty text back to AwaitingInput with
\* the validation message and no filtering, any other text to Searching.
\* Nothing is read once the loop is in Exited.
KeywordDecidesNextState ==
    /\ [][(tpc = "AwaitingInput" /\ toolVars' # toolVars) =>
            \/ toolOut' = "interrupted" /\ tpc' = "Exited"
            \/ toolOut' = "unexpected" /\ tpc' = "AwaitingInput" /\ keyword' = keyword
            \/ /\ Lower(keyword') \in ExitWords
               /\ tpc' = "Exited"
               /\ toolOut' = "goodbye"
            \/ /\ keyword' = <<>>
               /\ tpc' = "AwaitingInput"
               /\ toolOut' = "invalid_keyword"
               /\ filtered_df' = filtered_df
            \/ /\ keyword' # <<>>
               /\ Lower(keyword') \notin ExitWords
               /\ tpc' = "Searching"]_vars
    /\ [][tpc = "Exited" => toolVars' = toolVars]_vars

\* C7's case: the line " QuIt " has ended the loop.
ExitedOnMixedCaseQuit ==
    /\ tpc = "Exited"
    /\ keyword = <<"Q", "u", "I", "t">>
    /\ toolOut = "goodbye"

\* C8: the save prompt, the filename prompt and the save are reached only
\* with more than zero matches; from DisplayingResults with zero matches the
\* loop reports "no matches" and goes back to AwaitingInput, and a search
\* that failed inside leaves zero matches.
SavePromptNeedsMatches ==
    /\ [](tpc \in {"SavePrompt", "FilenamePrompt", "Saving"} => Len(filtered_df) > 0)
    /\ [][(tpc = "DisplayingResults" /\ Len(filtered_df) = 0 /\ toolVars' # toolVars) =>
            \/ toolOut' = "no_matches" /\ tpc' = "AwaitingInput"
            \/ toolOut' = "interrupted" /\ tpc' = "Exited"]_vars
    /\ [][(tpc = "Searching" /\ tpc' = "DisplayingResults" /\ ~RegexCompiles(keyword)) =>
            Len(filtered_df') = 0]_vars

\* C8's case: a search over a loaded frame found nothing and the loop is
\* back at the keyword prompt.
BackAfterNoMatches ==
    /\ tpc = "AwaitingInput"
    /\ toolOut = "no_matches"
    /\ keyword = <<"z">>
    /\ Len(tdf) > 0

\* C9: a failed stage of the pipeline has reported its error, no later
\* stage has run and the exit status is not zero; a failed load_data has
\* reported its error and the exit status is not zero.
FailureExitsNonZero ==
    /\ pc = "failed" =>
        /\ batchOut[Len(batchOut)] \in {"not_found", "unexpected"}
        /\ \A i \in 1..Len(batchOut) : batchOut[i] # "completed"
        /\ merged_df = <<>>
        /\ batchExit.done
        /\ batchExit.code # 0
    /\ tpc = "Terminated" =>
        /\ toolOut \in {"file_not_found", "file_empty", "load_error"}
        /\ toolExit.done
        /\ toolExit.code # 0

Failures == {"permission_denied", "save_error"}

\* C10: a save that fails is reported, writes nothing, is not tried again
\* and leaves the loop at AwaitingInput; so does a failed read at a prompt.
\* The loaded frame never changes inside the loop, the matches on display
\* are those of the keyword over it, and the loop ends only on an exit word
\* or an interrupt.
LoopSurvivesFailures ==
    /\ [][(tpc = "Saving" /\ toolVars' # toolVars) =>
            /\ tpc' \in {"AwaitingInput", "Exited"}
            /\ toolOut' \in Failures \cup {"saved", "no_data", "interrupted"}
            /\ (toolOut' \in Failures => tpc' = "AwaitingInput" /\ searchFile' = searchFile)
            /\ (tpc' = "Exited" => toolOut' = "interrupted")]_vars
    /\ [][toolOut' = "unexpected" => tpc' = "AwaitingInput"]_vars
    /\ [][(tpc \in InLoop) => tdf' = tdf]_vars
    /\ [](tpc \in {"DisplayingResults", "SavePrompt", "FilenamePrompt", "Saving"} =>
            filtered_df = search_by_job_title(tdf, keyword))
    /\ [][(tpc \in InLoop /\ tpc' \notin InLoop) =>
            /\ tpc' = "Exited"
            /\ \/ toolOut' = "interrupted"
               \/ toolOut' = "goodbye" /\ Lower(keyword') \in ExitWords]_vars

\* C10's case: a save was refused and the loop is back at the keyword prompt
\* with nothing written.
BackAfterRefusedSave ==
    /\ tpc = "AwaitingInput"
    /\ toolOut = "permission_denied"
    /\ searchFile = Absent
    /\ Len(filtered_df) > 0

====
